---- MODULE Spec2Model ----
(***************************************************************************)
(* Iterative BFS over a persistent Sirius session                          *)
(* (scripts/iterative_gpu_bfs.py, iterative_bfs_sirius).                   *)
(*                                                                         *)
(* The controller (the Python function) and the engine (the Sirius/DuckDB  *)
(* process reading commands from its stdin pipe) are two processes.  The   *)
(* controller writes a COPY command, sleeps a fixed settle interval and    *)
(* then opens the file the command names; nothing synchronises that read   *)
(* with the engine, so the engine's steps interleave freely with the       *)
(* controller's.  The files /tmp/bfs_distance_<d>.csv live in the file     *)
(* system and outlive a run.                                               *)
(***************************************************************************)
EXTENDS Integers, Sequences, FiniteSets, TLC

VARIABLES
    nodes,            \* node table: sequence of rows [txId, class]
    edges,            \* edge table: set of <<txId1, txId2>>
    max_hops,         \* argument max_hops
    run,              \* number of the current call of iterative_bfs_sirius
    pc,               \* position of the controller in the function
    visited,          \* visited = set()
    distance_counts,  \* distance_counts = {} (function distance -> count)
    current_distance, \* current_distance
    frontier_nodes,   \* frontier_nodes (a list)
    iteration,        \* iteration
    gpu_time,         \* gpu_time, in units of the settle interval
    sirius_proc,      \* state of the engine process
    stdin,            \* commands written to the pipe, not yet executed
    writing,          \* the COPY the engine is in the middle of
    files,            \* /tmp/bfs_distance_<d>.csv, d in 0..MaxDist
    result,           \* the dict the call returned
    issued,           \* history: COPY commands written in this run
    reads,            \* history: artifacts opened in this run
    stop,             \* history: how the while loop was left
    returned,         \* history: outcomes of the finished calls
    \* scripts/02_run_benchmarks.py, run_duckdb_benchmark/run_sirius_benchmark
    database,         \* 'duckdb' or 'sirius': which of the two functions runs
    mode,             \* argument mode
    num_runs,         \* argument num_runs
    session_queries,  \* argument session_queries
    bpc,              \* position of the benchmark function
    trial,            \* loop variable (run, i)
    load_times,       \* load_times (DuckDB cold_start)
    execution_times,  \* execution_times
    init_time,        \* init_time (DuckDB warm_cache, persistent_session)
    session_time,     \* session_time (DuckDB), total_time (Sirius): one clock
                      \* difference over many commands
    row_count,        \* row_count
    temp_files,       \* temporary script files that exist
    after,            \* what follows the finally block
    record,           \* the dict the function returned
    sessions,         \* history: the sessions opened, with their commands
    truth,            \* history: the time the phases of the session took
    init_span,        \* history: commands inside the interval behind the
                      \* reported initialization time
    query_span,       \* history: commands inside the intervals behind the
                      \* reported query time
    created,          \* history: number of script files created
    failed,           \* history: number of trials that failed
    fallback,         \* history: the engine's output held the fallback marker
    timed_out,        \* history: number of trials that ran into the timeout
    \* scripts/02_run_benchmarks.py, benchmark_suite, and
    \* scripts/run_persistent_session_benchmarks.py, run_comprehensive_benchmark
    runner,           \* which of the two suite functions runs
    combos,           \* the (db, size, query) combinations, in loop order
    position,         \* index of the combination the loops are at
    spc,              \* position of the suite function
    results,          \* results / all_results
    saved,            \* what save_results was given
    attempts,         \* history: the combinations reached, with their outcome
    \* the comment removal of run_sirius_benchmark (02_run_benchmarks.py) and
    \* of run_sirius_query (verify_query_results.py)
    cleaner,          \* which of the two functions runs
    query,            \* the text load_sql_query / f.read() returned
    clean_query,      \* clean_query / actual_query
    escaped,          \* the text between the quotes of gpu_processing('...')
    cpc,              \* position of the function
    \* the initialization script of iterative_bfs_sirius
    init_sql,         \* the temporary file: not written, there, removed
    engine_init,      \* what the engine's open of its -init file found
    \* inflate_dataset (01_prepare_data.py, inflate_dataset.py) and
    \* inflate_slim_dataset (inflate_slim_dataset.py)
    inflater,         \* which of the three functions runs
    base_nodes,       \* nodes['txId'], the ids of the base graph
    base_edges,       \* edges, rows <<txId1, txId2>>
    target_edges,     \* argument target_edges
    replica,          \* loop variable i
    inflated_nodes,   \* the ids of inflated_nodes_list, concatenated
    inflated_edges,   \* the rows of inflated_edges_list, concatenated
    fpc               \* position of the function

bfs == <<nodes, edges, max_hops, run, pc, visited, distance_counts,
         current_distance, frontier_nodes, iteration, gpu_time, sirius_proc,
         stdin, writing, files, result, issued, reads, stop, returned>>

args == <<database, mode, num_runs, session_queries>>
samples == <<load_times, execution_times, init_time, session_time>>
scripts == <<temp_files, created, after>>
spans == <<truth, init_span, query_span>>

bench == <<args, bpc, trial, samples, row_count, scripts, record, sessions,
           spans, failed, fallback, timed_out>>

suite == <<runner, combos, position, spc, results, saved, attempts>>

cleaning == <<cleaner, query, clean_query, escaped, cpc>>

startup == <<init_sql, engine_init>>

inflating == <<inflater, base_nodes, base_edges, target_edges, replica,
               inflated_nodes, inflated_edges, fpc>>

tools == <<suite, cleaning, startup, inflating>>

vars == <<bfs, bench, tools>>

inputs == <<nodes, edges, max_hops>>
locals == <<visited, distance_counts, current_distance, frontier_nodes,
            iteration, gpu_time>>

(***************************************************************************)
(* Bounds of the model.                                                    *)
(***************************************************************************)
MaxId == 3        \* ids are 1..MaxId
MaxHops == 3      \* max_hops is 0..MaxHops
MaxRows == 3      \* SpecGraphs: rows of the node table
MaxEdges == 3     \* SpecGraphs: rows of the edge table
SmallRows == 2    \* Spec: rows of the node table
SmallEdges == 1   \* Spec: rows of the edge table
RerunRows == 3    \* SpecRerun: rows of the node table
RerunEdges == 1   \* SpecRerun: rows of the edge table
MaxRuns == 2      \* SpecRerun: calls of the function on one machine
MaxTrials == 2    \* SpecBench: num_runs and session_queries are 1..MaxTrials
MaxDur == 2       \* SpecBench: a clock difference is 0..MaxDur ticks
MaxSizes == 2     \* SpecSuite: dataset sizes of a suite run
MaxQueries == 2   \* SpecSuite: queries of a suite run
MaxText == 5      \* SpecClean: characters of a query text
MaxBaseId == 21   \* SpecInflate: the ids of the base graph are 1..MaxBaseId
MaxBaseNodes == 2 \* SpecInflate: rows of the base node table
MaxBaseEdges == 1 \* SpecInflate: rows of the base edge table
MaxTarget == 2    \* SpecInflate: target_edges is 1..MaxTarget

\* if len(frontier_nodes) > 100000: the ceiling, scaled down to the model's
\* id universe so that a frontier can exceed it
FrontierCeiling == 2

\* time.sleep(0.5) returns after at least the interval: the sum of the clock
\* differences exceeds the intervals slept by up to MaxOvershoot intervals.
MaxOvershoot == 1

Ids == 1..MaxId
Classes == {"1", "2"}
start_class == "1"
MaxDist == MaxHops

(***************************************************************************)
(* Helpers on sequences and sets.                                          *)
(***************************************************************************)
Range(s) == {s[i] : i \in DOMAIN s}

Take(s, k) == SubSeq(s, 1, IF Len(s) < k THEN Len(s) ELSE k)

Perms(S) ==
    {s \in [1..Cardinality(S) -> S] : \A i, j \in DOMAIN s : s[i] = s[j] => i = j}

RECURSIVE SortedSeq(_)
SortedSeq(S) ==
    IF S = {} THEN <<>>
    ELSE LET m == CHOOSE x \in S : \A y \in S : x <= y
         IN  <<m>> \o SortedSeq(S \ {m})

RECURSIVE ColumnOf(_)
ColumnOf(rows) ==
    IF rows = <<>> THEN <<>>
    ELSE <<Head(rows).txId>> \o ColumnOf(Tail(rows))

(***************************************************************************)
(* The engine's answers.                                                   *)
(***************************************************************************)
\* SELECT txId FROM nodes WHERE class = '{start_class}'
IsStartRow(r) == r.class = start_class
SeedRows == ColumnOf(SelectSeq(nodes, IsStartRow))

\* variant: the COPY selects the sources of the edges entering the frontier
NeighborsReversed(ids) == {e[1] : e \in {x \in edges : x[2] \in Range(ids)}}

\* SELECT DISTINCT e.txId2 AS node_id FROM edges e WHERE e.txId1 IN (...)
Neighbors(ids) == {e[2] : e \in {x \in edges : x[1] \in Range(ids)}}

NoFile == [exists |-> FALSE, rows |-> <<>>, run |-> 0, complete |-> FALSE]
NoWrite == [busy |-> FALSE, d |-> 0, ids |-> <<>>, kind |-> "none"]
NoResult == [total_nodes |-> -1]

SeedCmd == [kind |-> "seed", d |-> 0, ids |-> <<>>]
\* variant: every hop exports to the file of distance 1
HopCmdOneFile(d, ids) == [kind |-> "hop", d |-> 1, ids |-> ids]

HopCmd(d, ids) == [kind |-> "hop", d |-> d, ids |-> ids]
QuitCmd == [kind |-> "quit", d |-> 0, ids |-> <<>>]

\* what a COPY command writes: the seed rows in table order, the DISTINCT
\* neighbours in an order the engine chooses
Outputs(cmd) ==
    IF cmd.kind = "seed" THEN {SeedRows} ELSE Perms(Neighbors(cmd.ids))

(***************************************************************************)
(* Initial states: the inputs of the runs.                                 *)
(***************************************************************************)
Rows == [txId : Ids, class : Classes]

\* Node tables of at most maxRows rows.  The function never compares ids, so
\* the ids of the table are taken to be 1..n; larger ids occur only as
\* dangling edge ends.  Only the rows of the start class are ever read, in
\* table order, so the rows of the other class are listed after them, in
\* increasing id order.  The same id may fill several rows of the start class.
NodeTables(maxRows) ==
    {t \in UNION {[1..n -> Rows] : n \in 0..maxRows} :
        /\ \E n \in 0..MaxId : {t[i].txId : i \in DOMAIN t} = 1..n
        /\ \A i, j \in DOMAIN t :
               i < j =>
                   /\ t[i].class = "2" => t[j].class = "2" /\ t[i].txId < t[j].txId
                   /\ t[i].txId = t[j].txId => t[i].class = t[j].class}

\* Edge tables: directed, self-loops and dangling ends included.  Repeated
\* edges are not listed: SELECT DISTINCT removes what they add.
EdgeTables(maxEdges) ==
    {E \in SUBSET (Ids \X Ids) : Cardinality(E) <= maxEdges}

NoRecord == [database |-> "none"]
NoTruth == [load |-> 0, warmup |-> 0, block |-> 0]

\* the state of a benchmark function at its first statement
BenchStart ==
    /\ trial = 0
    /\ load_times = <<>>
    /\ execution_times = <<>>
    /\ init_time = 0
    /\ session_time = 0
    /\ row_count = "None"
    /\ temp_files = {}
    /\ after = "none"
    /\ record = NoRecord
    /\ sessions = <<>>
    /\ truth = NoTruth
    /\ init_span = {}
    /\ query_span = {}
    /\ created = 0
    /\ failed = 0
    /\ fallback = FALSE
    /\ timed_out = 0

\* the benchmark functions are not called
BenchIdle ==
    /\ database = "none"
    /\ mode = "none"
    /\ num_runs = 0
    /\ session_queries = 0
    /\ bpc = "idle"
    /\ BenchStart

\* the suite functions are not called
SuiteIdle ==
    /\ runner = "none"
    /\ combos = <<>>
    /\ position = 0
    /\ spc = "idle"
    /\ results = <<>>
    /\ saved = "none"
    /\ attempts = <<>>

\* no query is being cleaned
CleaningIdle ==
    /\ cleaner = "none"
    /\ query = <<>>
    /\ clean_query = <<>>
    /\ escaped = <<>>
    /\ cpc = "idle"

\* the initialization script is not looked at
StartupIdle ==
    /\ init_sql = "none"
    /\ engine_init = "none"

\* no dataset is being inflated
InflatingIdle ==
    /\ inflater = "none"
    /\ base_nodes = <<>>
    /\ base_edges = <<>>
    /\ target_edges = 0
    /\ replica = 0
    /\ inflated_nodes = <<>>
    /\ inflated_edges = <<>>
    /\ fpc = "idle"

ToolsIdle == SuiteIdle /\ CleaningIdle /\ StartupIdle /\ InflatingIdle

InitCall ==
    /\ run = 1
    /\ pc = "entry"
    /\ visited = {}
    /\ distance_counts = <<>>
    /\ current_distance = 0
    /\ frontier_nodes = <<>>
    /\ iteration = 0
    /\ gpu_time = 0
    /\ sirius_proc = "none"
    /\ stdin = <<>>
    /\ writing = NoWrite
    /\ files = [d \in 0..MaxDist |-> NoFile]
    /\ result = NoResult
    /\ issued = <<>>
    /\ reads = <<>>
    /\ stop = "none"
    /\ returned = {}

\* Proper graphs: n nodes with ids 1..n, the first k of them of the start
\* class, every edge between two of them.
GraphTable(n, k) ==
    [i \in 1..n |-> [txId |-> i, class |-> IF i <= k THEN "1" ELSE "2"]]

ProperGraphs ==
    {g \in [nodes : {GraphTable(n, k) : n \in 0..MaxRows, k \in 0..MaxRows},
            edges : EdgeTables(MaxEdges)] :
        /\ Len(g.nodes) <= MaxId
        /\ \A e \in g.edges : e[1] <= Len(g.nodes) /\ e[2] <= Len(g.nodes)}

\* one call on a clean machine, every small proper graph
InitGraphs ==
    /\ \E g \in ProperGraphs : nodes = g.nodes /\ edges = g.edges
    /\ max_hops \in 0..MaxHops
    /\ InitCall
    /\ BenchIdle
    /\ ToolsIdle

\* one call on a clean machine, small tables with repeated ids and dangling
\* edge ends
Init ==
    /\ nodes \in NodeTables(SmallRows)
    /\ edges \in EdgeTables(SmallEdges)
    /\ max_hops \in 0..MaxHops
    /\ InitCall
    /\ BenchIdle
    /\ ToolsIdle

\* repeated calls on one machine
InitRerun ==
    /\ nodes \in NodeTables(RerunRows)
    /\ edges \in EdgeTables(RerunEdges)
    /\ max_hops \in 0..MaxHops
    /\ InitCall
    /\ BenchIdle
    /\ ToolsIdle

(***************************************************************************)
(* The controller: iterative_bfs_sirius, one action per blocking step.     *)
(***************************************************************************)
InFile(d) == files[d]

\* history record of one open(): which call's command wrote the file that
\* was read, and whether that command had finished writing it
ReadRecord(d) ==
    [d |-> d, run |-> InFile(d).run, complete |-> InFile(d).complete]

\* the returned dict; total_time and init_time are wall-clock readings that
\* no statement here depends on, avg_time_per_iteration is gpu_time/iteration
ResultDict(elapsed) ==
    [total_nodes |-> Cardinality(visited),
     max_distance |-> IF DOMAIN distance_counts # {}
                      THEN CHOOSE k \in DOMAIN distance_counts :
                               \A j \in DOMAIN distance_counts : j <= k
                      ELSE 0,
     distances |-> distance_counts,
     gpu_time |-> elapsed,
     iterations |-> iteration]

\* frontier_nodes = frontier_nodes[:100000] when it is longer
Truncate(frontier) ==
    IF Len(frontier) > FrontierCeiling THEN Take(frontier, FrontierCeiling)
    ELSE frontier

\* while len(frontier_nodes) > 0 and current_distance < max_hops
LoopCondition == Len(frontier_nodes) > 0 /\ current_distance < max_hops

\* new_nodes = [n for n in all_neighbors if n not in visited]
NotVisited(n) == n \notin visited

\* variant: the filter against visited is left out
NewNodesUnfiltered(all_neighbors) == all_neighbors

NewNodes(all_neighbors) == SelectSeq(all_neighbors, NotVisited)

\* variant: the exception of the hop's write leaves the function
HopWriteFailedRaises ==
    /\ stop' = "submit_failed"
    /\ pc' = "raised"

\* except Exception around the hop's write: warn, break
HopWriteFailed ==
    /\ stop' = "submit_failed"
    /\ pc' = "close"

\* variant: FileNotFoundError of the hop's open leaves the function
HopFileMissingRaises ==
    /\ stop' = "no_file"
    /\ pc' = "raised"

\* except FileNotFoundError around the hop's open: break
HopFileMissing ==
    /\ stop' = "no_file"
    /\ pc' = "close"

\* variant: a hop without new nodes does not leave the loop
NoNewNodesGoesOn ==
    /\ stop' = stop
    /\ pc' = "loop"

\* if len(new_nodes) == 0: break
NoNewNodes ==
    /\ stop' = "no_new"
    /\ pc' = "close"

\* subprocess.Popen([sirius_binary, "-init", init_sql], ...) succeeds
Popen ==
    /\ pc = "entry"
    /\ sirius_proc' = "running"
    /\ pc' = "seed_write"
    /\ UNCHANGED <<tools, bench, inputs, run, locals, stdin, writing, files,
                   result, issued, reads, stop, returned>>

\* the binary is absent: Popen raises, no process exists
PopenFails ==
    /\ pc = "entry"
    /\ pc' = "raised"
    /\ UNCHANGED <<tools, bench, inputs, run, locals, sirius_proc, stdin,
                   writing, files, result, issued, reads, stop, returned>>

\* write the distance-0 COPY; a dead process makes the write raise, the
\* handler kills the process and raises RuntimeError
SubmitSeed ==
    /\ pc = "seed_write"
    /\ IF sirius_proc = "running"
       THEN /\ stdin' = Append(stdin, SeedCmd)
            /\ issued' = Append(issued, [d |-> 0, ids |-> <<>>,
                                         frontier |-> <<>>])
            /\ pc' = "seed_read"
            /\ UNCHANGED sirius_proc
       ELSE /\ sirius_proc' = "killed"
            /\ pc' = "raised"
            /\ UNCHANGED <<stdin, issued>>
    /\ UNCHANGED <<tools, bench, inputs, run, locals, writing, files, result,
                   reads, stop, returned>>

\* open('/tmp/bfs_distance_0.csv'): an absent file raises FileNotFoundError
\* out of the function
ReadSeed ==
    /\ pc = "seed_read"
    /\ IF InFile(0).exists
       THEN /\ frontier_nodes' = InFile(0).rows
            /\ visited' = visited \cup Range(InFile(0).rows)
            /\ distance_counts' = (0 :> Len(InFile(0).rows))
            /\ reads' = Append(reads, ReadRecord(0))
            /\ pc' = "loop"
       ELSE /\ pc' = "raised"
            /\ UNCHANGED <<frontier_nodes, visited, distance_counts, reads>>
    /\ UNCHANGED <<tools, bench, inputs, run, current_distance, iteration,
                   gpu_time, sirius_proc, stdin, writing, files, result,
                   issued, stop, returned>>

\* one pass of the loop head up to the end of the sleep: count the hop,
\* truncate, write the COPY of the hop; a failing write breaks the loop
SubmitHop ==
    /\ pc = "loop"
    /\ LoopCondition
    /\ iteration' = iteration + 1
    /\ current_distance' = current_distance + 1
    /\ frontier_nodes' = Truncate(frontier_nodes)
    /\ IF sirius_proc = "running"
       THEN /\ stdin' = Append(stdin, HopCmd(current_distance', frontier_nodes'))
            /\ issued' = Append(issued, [d |-> current_distance',
                                         ids |-> frontier_nodes',
                                         frontier |-> frontier_nodes])
            /\ gpu_time' = gpu_time + 1
            /\ pc' = "hop_read"
            /\ UNCHANGED stop
       ELSE /\ HopWriteFailed
            /\ UNCHANGED <<stdin, issued, gpu_time>>
    /\ UNCHANGED <<tools, bench, inputs, run, visited, distance_counts,
                   sirius_proc, writing, files, result, reads, returned>>

\* the loop condition is false
LoopExit ==
    /\ pc = "loop"
    /\ ~LoopCondition
    /\ stop' = IF Len(frontier_nodes) = 0 THEN "empty_frontier" ELSE "max_hops"
    /\ pc' = "close"
    /\ UNCHANGED <<tools, bench, inputs, run, locals, sirius_proc, stdin,
                   writing, files, result, issued, reads, returned>>

\* open the hop's file, filter, absorb
ReadHop ==
    /\ pc = "hop_read"
    /\ IF ~InFile(current_distance).exists
       THEN /\ HopFileMissing
            /\ UNCHANGED <<visited, distance_counts, frontier_nodes, reads>>
       ELSE LET all_neighbors == InFile(current_distance).rows
                new_nodes == NewNodes(all_neighbors)
            IN  /\ reads' = Append(reads, ReadRecord(current_distance))
                /\ IF Len(new_nodes) = 0
                   THEN /\ NoNewNodes
                        /\ UNCHANGED <<visited, distance_counts, frontier_nodes>>
                   ELSE /\ visited' = visited \cup Range(new_nodes)
                        /\ distance_counts' =
                               (current_distance :> Len(new_nodes)) @@ distance_counts
                        /\ frontier_nodes' = new_nodes
                        /\ pc' = "loop"
                        /\ UNCHANGED stop
    /\ UNCHANGED <<tools, bench, inputs, run, current_distance, iteration,
                   gpu_time, sirius_proc, stdin, writing, files, result,
                   issued, returned>>

\* gpu_time has counted the settle intervals slept; each clock difference
\* is the interval plus an overshoot, so the sum reported lies at or above it
Return ==
    \E elapsed \in gpu_time..(IF gpu_time = 0 THEN 0 ELSE gpu_time + MaxOvershoot) :
        /\ result' = ResultDict(elapsed)
        /\ returned' = returned \cup {[result |-> ResultDict(elapsed),
                                       stop |-> stop]}
        /\ pc' = "returned"

\* write '.quit'; a failing write goes to the bare except, which kills
Close ==
    /\ pc = "close"
    /\ IF sirius_proc = "running"
       THEN /\ stdin' = Append(stdin, QuitCmd)
            /\ pc' = "wait"
            /\ UNCHANGED <<sirius_proc, result, returned>>
       ELSE /\ sirius_proc' = "killed"
            /\ Return
            /\ UNCHANGED stdin
    /\ UNCHANGED <<tools, bench, inputs, run, locals, writing, files, issued,
                   reads, stop>>

\* sirius_proc.wait(timeout=5) returns: the process has exited
WaitExited ==
    /\ pc = "wait"
    /\ sirius_proc # "running"
    /\ Return
    /\ UNCHANGED <<tools, bench, inputs, run, locals, sirius_proc, stdin,
                   writing, files, issued, reads, stop>>

\* variant: the expired wait is swallowed and nothing is killed
WaitTimeoutNoKill ==
    /\ pc = "wait"
    /\ sirius_proc = "running"
    /\ Return
    /\ UNCHANGED <<tools, bench, inputs, run, locals, sirius_proc, stdin,
                   writing, files, issued, reads, stop>>

\* sirius_proc.wait(timeout=5) raises TimeoutExpired: kill
WaitTimeout ==
    /\ pc = "wait"
    /\ sirius_proc = "running"
    /\ sirius_proc' = "killed"
    /\ stdin' = <<>>
    /\ writing' = NoWrite
    /\ Return
    /\ UNCHANGED <<tools, bench, inputs, run, locals, files, issued, reads, stop>>

(***************************************************************************)
(* The engine process.                                                     *)
(***************************************************************************)
FileOf(rows, done) ==
    [exists |-> TRUE, rows |-> rows, run |-> run, complete |-> done]

\* the engine executes the next COPY and the file is complete at once
EngineCopy ==
    /\ sirius_proc = "running"
    /\ ~writing.busy
    /\ stdin # <<>>
    /\ Head(stdin).kind # "quit"
    /\ \E out \in Outputs(Head(stdin)) :
           files' = [files EXCEPT ![Head(stdin).d] = FileOf(out, TRUE)]
    /\ stdin' = Tail(stdin)
    /\ UNCHANGED <<tools, bench, inputs, run, pc, locals, sirius_proc,
                   writing, result, issued, reads, stop, returned>>

\* the engine has created (or truncated) the file of the next COPY and has
\* not flushed its rows yet
EngineBegin ==
    /\ sirius_proc = "running"
    /\ ~writing.busy
    /\ stdin # <<>>
    /\ Head(stdin).kind # "quit"
    /\ files' = [files EXCEPT ![Head(stdin).d] = FileOf(<<>>, FALSE)]
    /\ writing' = [busy |-> TRUE, d |-> Head(stdin).d, ids |-> Head(stdin).ids,
                   kind |-> Head(stdin).kind]
    /\ stdin' = Tail(stdin)
    /\ UNCHANGED <<tools, bench, inputs, run, pc, locals, sirius_proc, result,
                   issued, reads, stop, returned>>

\* the engine flushes the rows and closes the file
EngineFinish ==
    /\ sirius_proc = "running"
    /\ writing.busy
    /\ \E out \in Outputs(writing) :
           files' = [files EXCEPT ![writing.d] = FileOf(out, TRUE)]
    /\ writing' = NoWrite
    /\ UNCHANGED <<tools, bench, inputs, run, pc, locals, sirius_proc, stdin,
                   result, issued, reads, stop, returned>>

\* the engine executes .quit
EngineQuit ==
    /\ sirius_proc = "running"
    /\ ~writing.busy
    /\ stdin # <<>>
    /\ Head(stdin).kind = "quit"
    /\ sirius_proc' = "exited"
    /\ stdin' = <<>>
    /\ UNCHANGED <<tools, bench, inputs, run, pc, locals, writing, files,
                   result, issued, reads, stop, returned>>

\* the engine process dies (crash, out of memory, killed from outside).
\* Only a death before a write differs, for the controller, from an engine
\* that has not executed the command yet.
EngineDies ==
    /\ sirius_proc = "running"
    /\ pc \in {"seed_write", "loop"}
    /\ sirius_proc' = "crashed"
    /\ stdin' = <<>>
    /\ writing' = NoWrite
    /\ UNCHANGED <<tools, bench, inputs, run, pc, locals, files, result,
                   issued, reads, stop, returned>>

(***************************************************************************)
(* The close sequence performed once more on the closed session.           *)
(***************************************************************************)
Ended == {"exited", "killed", "crashed"}

\* try: write '.quit', flush, wait(timeout=5); except: kill().  The pipe of
\* a process that has ended is broken, so the flush raises, the bare except
\* takes it and calls kill(), which sends nothing to a process that has ended.
CloseAgain ==
    /\ pc = "returned"
    /\ sirius_proc \in Ended
    /\ pc' = "closed"
    /\ UNCHANGED <<tools, bench, inputs, run, locals, sirius_proc, stdin,
                   writing, files, result, issued, reads, stop, returned>>

(***************************************************************************)
(* A further call of the function on the same machine and dataset.         *)
(***************************************************************************)
\* The files stay.  A process that the earlier call left behind is dropped
\* together with the commands it had not executed.
CallAgain ==
    /\ pc \in {"returned", "raised"}
    /\ run < MaxRuns
    /\ run' = run + 1
    /\ pc' = "entry"
    /\ visited' = {}
    /\ distance_counts' = <<>>
    /\ current_distance' = 0
    /\ frontier_nodes' = <<>>
    /\ iteration' = 0
    /\ gpu_time' = 0
    /\ sirius_proc' = "none"
    /\ stdin' = <<>>
    /\ writing' = NoWrite
    /\ result' = NoResult
    /\ issued' = <<>>
    /\ reads' = <<>>
    /\ stop' = "none"
    /\ UNCHANGED <<tools, bench, inputs, files, returned>>

Controller ==
    \/ Popen \/ PopenFails \/ SubmitSeed \/ ReadSeed \/ SubmitHop \/ LoopExit
    \/ ReadHop \/ Close \/ WaitExited \/ WaitTimeout

Engine == EngineCopy \/ EngineBegin \/ EngineFinish \/ EngineQuit \/ EngineDies

\* one call, the engine free to be slow, to be caught in the middle of a
\* write and to die
Next == Controller \/ Engine

Spec == Init /\ [][Next]_vars

\* one call of a binary that exists, with an engine that executes each
\* command in one step and lives
NextGraphs ==
    \/ Popen \/ SubmitSeed \/ ReadSeed \/ SubmitHop \/ LoopExit \/ ReadHop
    \/ Close \/ WaitExited \/ WaitTimeout \/ EngineCopy \/ EngineQuit

SpecGraphs == InitGraphs /\ [][NextGraphs]_vars

\* calls one after the other on the same machine and dataset
NextRerun == Controller \/ Engine \/ CallAgain

SpecRerun == InitRerun /\ [][NextRerun]_vars

\* one call, then the close sequence once more
NextClose == Controller \/ Engine \/ CloseAgain

SpecClose == Init /\ [][NextClose]_vars

(***************************************************************************)
(* The stdin pipe as the bounded buffer it is.  sirius_proc.stdin.write    *)
(* and flush return when the kernel has taken the bytes: at once while the *)
(* pipe has room, otherwise when the engine has read enough of what is     *)
(* buffered.  The weight of a command is the length of its id list (the    *)
(* fixed text of a COPY is far below the size of a pipe); the capacity is  *)
(* scaled with the ceiling of the frontier, below it as in the program     *)
(* (100000 ids are several times 64 KiB).  The actions above are those of  *)
(* a pipe that always has room.                                            *)
(***************************************************************************)
PipeCapacity == 1

Weight(cmd) == Len(cmd.ids)

RECURSIVE Buffered(_)
Buffered(cmds) ==
    IF cmds = <<>> THEN 0
    ELSE LET rest == Buffered(Tail(cmds))
             all == Weight(Head(cmds)) + rest
         IN  IF all > PipeCapacity THEN PipeCapacity ELSE all

\* the flush of cmd returns: the process is gone (the write raises), the
\* pipe has room for the command, or the engine is at its read of stdin and
\* takes the bytes as they come
Flushes(cmd) ==
    \/ sirius_proc # "running"
    \/ Buffered(stdin) + Weight(cmd) <= PipeCapacity
    \/ stdin = <<>> /\ ~writing.busy

\* the write of the hop's COPY on the bounded pipe.  The seed COPY and
\* .quit carry no ids and always go through (SubmitSeed, Close).
FlushHop ==
    /\ Flushes(HopCmd(current_distance + 1, Truncate(frontier_nodes)))
    /\ SubmitHop

PipeController ==
    \/ Popen \/ PopenFails \/ SubmitSeed \/ ReadSeed \/ FlushHop \/ LoopExit
    \/ ReadHop \/ Close \/ WaitExited \/ WaitTimeout

NextPipe == PipeController \/ Engine \/ CallAgain

\* the controller is scheduled whenever it can take a step; nothing is
\* assumed of the engine, which may stop for good at any point
SpecPipe == Init /\ [][NextPipe]_vars /\ WF_vars(PipeController)

(***************************************************************************)
(* The start of the session with its initialization script.  Popen returns *)
(* when the child has been started, not when the engine has opened the     *)
(* file named after -init; the finally block removes the file right after. *)
(* The engine opens its -init file once, before it reads stdin.  Without   *)
(* the script the tables do not exist and every COPY fails.  The actions   *)
(* above are those of an engine that has read the script.                  *)
(***************************************************************************)
\* with tempfile.NamedTemporaryFile(..., delete=False) as f: f.write(...)
WriteInitScript ==
    /\ pc = "entry"
    /\ init_sql = "none"
    /\ init_sql' = "written"
    /\ UNCHANGED <<suite, cleaning, inflating, engine_init, bfs, bench>>

\* subprocess.Popen([sirius_binary, "-init", init_sql], ...) returns
PopenWithScript == init_sql = "written" /\ Popen

\* finally: os.remove(init_sql), after Popen has returned
RemoveInitScript ==
    /\ pc = "seed_write"
    /\ init_sql = "written"
    /\ init_sql' = "removed"
    /\ UNCHANGED <<suite, cleaning, inflating, engine_init, bfs, bench>>

\* Popen raises: the finally block removes the file, the exception goes on
PopenFailsWithScript ==
    /\ pc = "entry"
    /\ init_sql = "written"
    /\ init_sql' = "removed"
    /\ pc' = "raised"
    /\ UNCHANGED <<suite, cleaning, inflating, engine_init, bench, inputs,
                   run, locals, sirius_proc, stdin, writing, files, result,
                   issued, reads, stop, returned>>

\* the engine opens the file named after -init
EngineOpensInit ==
    /\ sirius_proc = "running"
    /\ engine_init = "none"
    /\ engine_init' = IF init_sql = "written" THEN "read" ELSE "missing"
    /\ UNCHANGED <<suite, cleaning, inflating, init_sql, bfs, bench>>

\* a COPY on tables that were never created fails and writes no file
EngineRejects ==
    /\ sirius_proc = "running"
    /\ engine_init = "missing"
    /\ stdin # <<>>
    /\ Head(stdin).kind # "quit"
    /\ stdin' = Tail(stdin)
    /\ UNCHANGED <<tools, bench, inputs, run, pc, locals, sirius_proc,
                   writing, files, result, issued, reads, stop, returned>>

NextStartup ==
    \/ WriteInitScript \/ PopenWithScript \/ PopenFailsWithScript
    \/ RemoveInitScript
    \/ (init_sql = "removed" /\ SubmitSeed)
    \/ ReadSeed \/ SubmitHop \/ LoopExit \/ ReadHop \/ Close \/ WaitExited
    \/ WaitTimeout
    \/ EngineOpensInit
    \/ (engine_init = "read" /\ (EngineCopy \/ EngineBegin \/ EngineFinish))
    \/ EngineRejects
    \/ (engine_init # "none" /\ EngineQuit)
    \/ EngineDies

SpecStartup == Init /\ [][NextStartup]_vars

(***************************************************************************)
(* The benchmark controller: scripts/02_run_benchmarks.py,                 *)
(* run_duckdb_benchmark and run_sirius_benchmark.                          *)
(*                                                                         *)
(* A DuckDB session is a connection of the duckdb module; a Sirius session *)
(* is one process started by subprocess.run on a script file.  A clock     *)
(* difference (time.time() - start) is a whole number of ticks; the values *)
(* computed from clock differences are fractions in lowest terms, which is *)
(* the arithmetic of the reals: rounding of floats is not modelled.        *)
(***************************************************************************)
Modes == {"cold_start", "warm_cache", "persistent_session"}
Durations == 0..MaxDur

\* min(total_time * 0.3, 5.0): the cap of 5.0 s, scaled down to the model's
\* clock so that a session can exceed it
InitCap == 1

RECURSIVE Gcd(_, _)
Gcd(a, b) == IF b = 0 THEN a ELSE Gcd(b, a % b)

\* a / b in lowest terms, a >= 0 and b > 0
Frac(a, b) == LET g == Gcd(a, b) IN [n |-> a \div g, d |-> b \div g]

Whole(k) == [n |-> k, d |-> 1]
Plus(x, y) == Frac(x.n * y.d + y.n * x.d, x.d * y.d)
Minus(x, y) == Frac(x.n * y.d - y.n * x.d, x.d * y.d)
Over(x, k) == Frac(x.n, x.d * k)
Times(x, p, q) == Frac(x.n * p, x.d * q)
AtMost(x, y) == x.n * y.d <= y.n * x.d
Least(x, y) == IF AtMost(x, y) THEN x ELSE y

RECURSIVE SumOf(_)
SumOf(s) == IF s = <<>> THEN 0 ELSE Head(s) + SumOf(Tail(s))

MinOf(s) == CHOOSE x \in Range(s) : \A y \in Range(s) : x <= y
MaxOf(s) == CHOOSE x \in Range(s) : \A y \in Range(s) : y <= x

\* sum(xs) / len(xs)
Mean(s) == Frac(SumOf(s), Len(s))

\* the statements of the script of a cold_start trial
ColdScript == <<"load_nodes", "load_edges", "buffer_init", "query">>

\* the statements of the script of a warm_cache or persistent_session run:
\* load, initialise, the warm-up query, then n times the query
SessionScript(n) ==
    <<"load_nodes", "load_edges", "buffer_init", "warmup">>
        \o [i \in 1..n |-> "query"]

Script ==
    IF mode = "cold_start" THEN ColdScript
    ELSE IF mode = "warm_cache" THEN SessionScript(num_runs)
    ELSE SessionScript(session_queries)

\* the session opened last
Current == sessions[Len(sessions)]

Opened(engine, cmds) ==
    Append(sessions, [engine |-> engine, cmds |-> cmds, open |-> TRUE])

Received(cmds) ==
    [sessions EXCEPT ![Len(sessions)].cmds = Current.cmds \o cmds]

Closed == [sessions EXCEPT ![Len(sessions)].open = FALSE]

\* {..., 'avg_query_time': None, 'error': msg}
ErrorRecord(msg) ==
    [database |-> database, mode |-> mode, avg_query_time |-> "None",
     error |-> msg]

\* variant: the per-query share of the session block is reported as amortized
AmortizedOfBlock(total, block, n) == Over(block, n)

\* 'amortized_time_per_query': total_time / session_queries
Amortized(total, block, n) == Over(total, n)

\* the dicts run_duckdb_benchmark returns
DuckRecord ==
    IF mode = "cold_start"
    THEN [database |-> "duckdb", mode |-> mode,
          initialization_time |-> Mean(load_times),
          avg_query_time |-> Mean(execution_times),
          total_time |-> Plus(Mean(load_times), Mean(execution_times)),
          min_query_time |-> Whole(MinOf(execution_times)),
          max_query_time |-> Whole(MaxOf(execution_times)),
          num_runs |-> num_runs]
    ELSE IF mode = "warm_cache"
    THEN [database |-> "duckdb", mode |-> mode,
          initialization_time |-> Whole(init_time),
          avg_query_time |-> Mean(execution_times),
          min_query_time |-> Whole(MinOf(execution_times)),
          max_query_time |-> Whole(MaxOf(execution_times)),
          num_runs |-> num_runs]
    ELSE LET total_time == Whole(init_time + session_time)
         IN  [database |-> "duckdb", mode |-> mode,
              initialization_time |-> Whole(init_time),
              session_total_time |-> Whole(session_time),
              avg_query_time |-> Over(Whole(session_time), session_queries),
              total_time |-> total_time,
              num_queries |-> session_queries,
              amortized_time_per_query |->
                  Amortized(total_time, Whole(session_time), session_queries),
              result_row_count |-> row_count]

\* the dicts run_sirius_benchmark returns after the engine has exited with 0;
\* session_time holds total_time, the clock difference around subprocess.run.
\* The GPU statistics, the buffer sizes, the query and the dataset names are
\* left out: no statement here depends on them.
SiriusRecord ==
    IF mode = "cold_start"
    THEN IF execution_times = <<>>
         THEN ErrorRecord("All runs failed")
         ELSE [database |-> "sirius", mode |-> mode,
               total_time |-> Mean(execution_times),
               min_total_time |-> Whole(MinOf(execution_times)),
               max_total_time |-> Whole(MaxOf(execution_times)),
               num_runs |-> Len(execution_times)]
    ELSE IF mode = "warm_cache"
    THEN LET total_time == Whole(session_time)
             estimated_init_time == Times(total_time, 4, 5)
         IN  [database |-> "sirius", mode |-> mode,
              initialization_time |-> estimated_init_time,
              avg_query_time |->
                  Over(Minus(total_time, estimated_init_time), num_runs + 1),
              total_time |-> total_time,
              num_runs |-> num_runs,
              note |-> "Query timing estimated from total time"]
    ELSE LET total_time == Whole(session_time)
             estimated_init_time ==
                 Least(Times(total_time, 3, 10), Whole(InitCap))
             session == Minus(total_time, estimated_init_time)
             rec == [database |-> "sirius", mode |-> mode,
                     initialization_time |-> estimated_init_time,
                     session_total_time |-> session,
                     avg_query_time |-> Over(session, session_queries + 1),
                     total_time |-> total_time,
                     num_queries |-> session_queries,
                     amortized_time_per_query |->
                         Amortized(total_time, session, session_queries),
                     note |-> "Query timing estimated from total time"]
         IN  IF row_count = "None" THEN rec
             ELSE ("result_row_count" :> row_count) @@ rec

\* one call of one of the two functions, its arguments drawn from the modes
\* and the small trial counts; the BFS function is not called
InitBench ==
    /\ database \in {"duckdb", "sirius"}
    /\ mode \in Modes
    /\ num_runs \in 1..MaxTrials
    /\ session_queries \in 1..MaxTrials
    /\ bpc = "entry"
    /\ BenchStart
    /\ nodes = <<>>
    /\ edges = {}
    /\ max_hops = 0
    /\ InitCall
    /\ ToolsIdle

\* load_sql_query returned None or a dataset file is absent: return None
InputsMissing ==
    /\ bpc = "entry"
    /\ bpc' = "returned"
    /\ UNCHANGED <<tools, bfs, timed_out, args, trial, samples, row_count,
                   scripts, record, sessions, spans, failed, fallback>>

\* the Sirius binary is absent: an error dict is returned
BinaryMissing ==
    /\ bpc = "entry"
    /\ database = "sirius"
    /\ record' = ErrorRecord("Sirius binary not found")
    /\ bpc' = "returned"
    /\ UNCHANGED <<tools, bfs, timed_out, args, trial, samples, row_count,
                   scripts, sessions, spans, failed, fallback>>

\* the checks pass and the branch of the mode is entered
Enter ==
    /\ bpc = "entry"
    /\ bpc' = IF database = "duckdb" THEN "connect"
              ELSE IF mode = "persistent_session" THEN "probe"
              ELSE "script"
    /\ UNCHANGED <<tools, bfs, timed_out, args, trial, samples, row_count,
                   scripts, record, sessions, spans, failed, fallback>>

(***************************************************************************)
(* run_duckdb_benchmark.                                                   *)
(***************************************************************************)
\* conn = duckdb.connect(':memory:')
DuckConnect ==
    /\ bpc = "connect"
    /\ sessions' = Opened("duckdb", <<>>)
    /\ bpc' = "load"
    /\ UNCHANGED <<tools, bfs, timed_out, args, trial, samples, row_count,
                   scripts, record, spans, failed, fallback>>

\* the two CREATE TABLE statements between load_start (init_start) and the
\* clock difference
DuckLoad ==
    /\ bpc = "load"
    /\ \E d \in Durations :
           /\ IF mode = "cold_start"
              THEN /\ load_times' = Append(load_times, d)
                   /\ UNCHANGED init_time
              ELSE /\ init_time' = d
                   /\ UNCHANGED load_times
           /\ truth' = [truth EXCEPT !.load = d]
    /\ sessions' = Received(<<"load_nodes", "load_edges">>)
    /\ init_span' = {1, 2}
    /\ bpc' = IF mode = "cold_start" THEN "query" ELSE "warmup"
    /\ UNCHANGED <<tools, bfs, timed_out, args, trial, execution_times,
                   session_time, row_count, scripts, record, query_span,
                   failed, fallback>>

\* the warm-up run: executed outside every clock interval, its rows counted
\* in persistent_session
DuckWarmup ==
    /\ bpc = "warmup"
    /\ \E d \in Durations : truth' = [truth EXCEPT !.warmup = d]
    /\ sessions' = Received(<<"warmup">>)
    /\ row_count' = IF mode = "persistent_session" THEN "rows" ELSE row_count
    /\ bpc' = "query"
    /\ UNCHANGED <<tools, bfs, timed_out, args, trial, samples, scripts,
                   record, init_span, query_span, failed, fallback>>

\* one conn.execute(query).fetchall() of the timed loop.  cold_start and
\* warm_cache take one clock difference per query; persistent_session takes
\* one clock difference over the whole loop.
DuckQuery ==
    /\ bpc = "query"
    /\ \E d \in Durations :
           /\ IF mode = "persistent_session"
              THEN /\ session_time' = session_time + d
                   /\ UNCHANGED execution_times
              ELSE /\ execution_times' = Append(execution_times, d)
                   /\ UNCHANGED session_time
           /\ truth' = [truth EXCEPT !.block = truth.block + d]
    /\ sessions' = Received(<<"query">>)
    /\ query_span' = query_span \cup {Len(Current.cmds) + 1}
    /\ IF mode = "cold_start"
       THEN /\ bpc' = "close"
            /\ UNCHANGED trial
       ELSE /\ trial' = trial + 1
            /\ bpc' = IF trial' < (IF mode = "warm_cache" THEN num_runs
                                   ELSE session_queries)
                      THEN "query" ELSE "close"
    /\ UNCHANGED <<tools, bfs, timed_out, args, load_times, init_time,
                   row_count, scripts, record, init_span, failed,
                   fallback>>

\* conn.execute(query) raises: nothing catches it, the function is left with
\* the connection not closed
DuckQueryFails ==
    /\ bpc \in {"warmup", "query"}
    /\ failed' = failed + 1
    /\ bpc' = "raised"
    /\ UNCHANGED <<tools, bfs, timed_out, args, trial, samples, row_count,
                   scripts, record, sessions, spans, fallback>>

\* conn.close(); in cold_start the next pass of the loop follows
DuckClose ==
    /\ bpc = "close"
    /\ sessions' = Closed
    /\ IF mode = "cold_start"
       THEN /\ trial' = trial + 1
            /\ bpc' = IF trial' < num_runs THEN "connect" ELSE "aggregate"
       ELSE /\ bpc' = "aggregate"
            /\ UNCHANGED trial
    /\ UNCHANGED <<tools, bfs, timed_out, args, samples, row_count, scripts,
                   record, spans, failed, fallback>>

\* the averages and the returned dict
DuckReturn ==
    /\ bpc = "aggregate"
    /\ database = "duckdb"
    /\ record' = DuckRecord
    /\ bpc' = "returned"
    /\ UNCHANGED <<tools, bfs, timed_out, args, trial, samples, row_count,
                   scripts, sessions, spans, failed, fallback>>

(***************************************************************************)
(* run_sirius_benchmark.                                                   *)
(***************************************************************************)
\* persistent_session: the row count is taken from a DuckDB connection of
\* its own, inside try/except Exception; a failure leaves row_count = None
\* and the connection not closed
RowCountProbe ==
    /\ bpc = "probe"
    /\ \/ /\ sessions' = Append(sessions,
                                [engine |-> "duckdb",
                                 cmds |-> <<"load_nodes", "load_edges", "query">>,
                                 open |-> FALSE])
          /\ row_count' = "rows"
       \/ /\ sessions' = Append(sessions,
                                [engine |-> "duckdb",
                                 cmds |-> <<"load_nodes", "load_edges">>,
                                 open |-> TRUE])
          /\ row_count' = "None"
    /\ bpc' = "script"
    /\ UNCHANGED <<tools, bfs, timed_out, args, trial, samples, scripts,
                   record, spans, failed, fallback>>

\* with tempfile.NamedTemporaryFile(..., delete=False) as f: f.write(...)
WriteScript ==
    /\ bpc = "script"
    /\ created' = created + 1
    /\ temp_files' = temp_files \cup {created'}
    /\ bpc' = "spawn"
    /\ UNCHANGED <<tools, bfs, timed_out, args, trial, samples, row_count,
                   after, record, sessions, spans, failed, fallback>>

\* subprocess.run starts the engine on the script
Spawn ==
    /\ bpc = "spawn"
    /\ sessions' = Opened("sirius", Script)
    /\ bpc' = "running"
    /\ UNCHANGED <<tools, bfs, timed_out, args, trial, samples, row_count,
                   scripts, record, spans, failed, fallback>>

\* subprocess.run cannot start the engine and raises OSError: the finally
\* block runs and the exception leaves the function
SpawnFails ==
    /\ bpc = "spawn"
    /\ after' = "raise"
    /\ bpc' = "finally"
    /\ UNCHANGED <<tools, bfs, timed_out, args, trial, samples, row_count,
                   temp_files, created, record, sessions, spans, failed,
                   fallback>>

\* the engine exits with code 0 within the timeout; its output, which may
\* hold the fallback marker, is captured and not looked at.  The one clock
\* difference spans the whole script.
ScriptSucceeds ==
    /\ bpc = "running"
    /\ \E marker \in BOOLEAN : fallback' = (fallback \/ marker)
    /\ sessions' = Closed
    /\ IF mode = "cold_start"
       THEN /\ \E d \in Durations :
                   execution_times' = Append(execution_times, d)
            /\ after' = "next"
            /\ UNCHANGED <<session_time, truth, init_span>>
       ELSE /\ \E l, w, b \in Durations :
                   /\ truth' = [load |-> l, warmup |-> w, block |-> b]
                   /\ session_time' = l + w + b
            /\ init_span' = 1..Len(Script)
            /\ after' = "return"
            /\ UNCHANGED execution_times
    /\ query_span' = 1..Len(Script)
    /\ bpc' = "finally"
    /\ UNCHANGED <<tools, bfs, timed_out, args, trial, load_times, init_time,
                   row_count, temp_files, created, record, failed>>

\* the engine exits with a non-zero code: a warning in cold_start, an error
\* dict in the other modes
ScriptFails ==
    /\ bpc = "running"
    /\ \E marker \in BOOLEAN : fallback' = (fallback \/ marker)
    /\ sessions' = Closed
    /\ failed' = failed + 1
    /\ IF mode = "cold_start"
       THEN /\ after' = "next"
            /\ UNCHANGED record
       ELSE /\ after' = "return_error"
            /\ record' = ErrorRecord(IF mode = "warm_cache"
                                     THEN "Execution failed"
                                     ELSE "Session failed")
    /\ bpc' = "finally"
    /\ UNCHANGED <<tools, bfs, timed_out, args, trial, samples, row_count,
                   temp_files, created, spans>>

\* the timeout of subprocess.run expires: the engine is killed and
\* TimeoutExpired is caught
ScriptTimesOut ==
    /\ bpc = "running"
    /\ sessions' = Closed
    /\ failed' = failed + 1
    /\ timed_out' = timed_out + 1
    /\ IF mode = "cold_start"
       THEN /\ after' = "next"
            /\ UNCHANGED record
       ELSE /\ after' = "return_error"
            /\ record' = ErrorRecord("Timeout")
    /\ bpc' = "finally"
    /\ UNCHANGED <<tools, bfs, args, trial, samples, row_count, temp_files,
                   created, spans, fallback>>

\* variant: the script is removed on the way to the returned dict only
RemoveScriptOnReturn ==
    temp_files' = IF after = "return" THEN temp_files \ {created}
                  ELSE temp_files

\* if os.path.exists(temp_sql_file): os.remove(temp_sql_file)
RemoveScript == temp_files' = temp_files \ {created}

\* the finally block, then what the try block had decided: the next trial,
\* the dict, the error dict or the exception
Finally ==
    /\ bpc = "finally"
    /\ RemoveScript
    /\ IF after = "next"
       THEN /\ trial' = trial + 1
            /\ bpc' = IF trial' < num_runs THEN "script" ELSE "aggregate"
       ELSE /\ bpc' = IF after = "return" THEN "aggregate"
                      ELSE IF after = "return_error" THEN "returned"
                      ELSE "raised"
            /\ UNCHANGED trial
    /\ UNCHANGED <<tools, bfs, timed_out, args, samples, row_count, created,
                   after, record, sessions, spans, failed, fallback>>

\* the aggregates or estimates and the returned dict
SiriusReturn ==
    /\ bpc = "aggregate"
    /\ database = "sirius"
    /\ record' = SiriusRecord
    /\ bpc' = "returned"
    /\ UNCHANGED <<tools, bfs, timed_out, args, trial, samples, row_count,
                   scripts, sessions, spans, failed, fallback>>

DuckDB ==
    \/ DuckConnect \/ DuckLoad \/ DuckWarmup \/ DuckQuery \/ DuckQueryFails
    \/ DuckClose \/ DuckReturn

Sirius ==
    \/ RowCountProbe \/ WriteScript \/ Spawn \/ SpawnFails \/ ScriptSucceeds
    \/ ScriptFails \/ ScriptTimesOut \/ Finally \/ SiriusReturn

NextBench == InputsMissing \/ BinaryMissing \/ Enter \/ DuckDB \/ Sirius

SpecBench == InitBench /\ [][NextBench]_vars

(***************************************************************************)
(* The suite functions: benchmark_suite (02_run_benchmarks.py, followed by *)
(* save_results in main) and run_comprehensive_benchmark                   *)
(* (run_persistent_session_benchmarks.py).  Both walk the combinations in  *)
(* nested loops and call run_duckdb_benchmark or run_sirius_benchmark for  *)
(* each; the call is the benchmark function above, run from its first      *)
(* statement to its return or its exception.  Of a returned dict the list  *)
(* keeps, in this model, the combination and the error text.               *)
(***************************************************************************)
Runners == {"benchmark_suite", "run_comprehensive_benchmark"}

\* the nested loops "for size ... for query ..." over one database, flattened
Combinations(db) ==
    [i \in 1..(MaxSizes * MaxQueries) |->
        [db |-> db,
         size |-> ((i - 1) \div MaxQueries) + 1,
         query |-> ((i - 1) % MaxQueries) + 1]]

InitSuite ==
    /\ runner \in Runners
    /\ \E db \in {"duckdb", "sirius"} : combos = Combinations(db)
    /\ position = 1
    /\ spc = "loop"
    /\ results = <<>>
    /\ saved = "none"
    /\ attempts = <<>>
    /\ CleaningIdle /\ StartupIdle /\ InflatingIdle
    /\ database = "none"
    /\ mode \in IF runner = "benchmark_suite" THEN Modes
                ELSE {"persistent_session"}
    /\ num_runs \in IF runner = "benchmark_suite" THEN 1..MaxTrials ELSE {1}
    /\ session_queries \in 1..MaxTrials
    /\ bpc = "idle"
    /\ BenchStart
    /\ nodes = <<>>
    /\ edges = {}
    /\ max_hops = 0
    /\ InitCall

\* what the list keeps of a dict
Entry(i, rec) ==
    [combo |-> i,
     error |-> IF "error" \in DOMAIN rec THEN rec.error ELSE "none"]

\* the record run_comprehensive_benchmark builds in its except clause
ExceptionEntry(i) == [combo |-> i, error |-> "str(e)"]

\* ensure_dataset_exists(size) is False: the queries of the size are skipped
SkipDataset ==
    /\ runner = "run_comprehensive_benchmark"
    /\ spc = "loop"
    /\ position <= Len(combos)
    /\ combos[position].query = 1
    /\ position' = position + MaxQueries
    /\ attempts' = attempts \o
           [k \in 1..MaxQueries |->
               [combo |-> position + k - 1, outcome |-> "skipped"]]
    /\ UNCHANGED <<cleaning, startup, inflating, bfs, bench, runner, combos,
                   spc, results, saved>>

\* result = run_duckdb_benchmark(...) / run_sirius_benchmark(...): the call
CallBenchmark ==
    /\ spc = "loop"
    /\ position <= Len(combos)
    /\ spc' = "call"
    /\ database' = combos[position].db
    /\ bpc' = "entry"
    /\ UNCHANGED <<cleaning, startup, inflating, bfs, mode, num_runs,
                   session_queries, trial, samples,
                   row_count, scripts, record, sessions, spans, failed,
                   fallback, timed_out, runner, combos, position, results,
                   saved, attempts>>

\* the benchmark function's frame is gone
Forgotten ==
    /\ bpc' = "idle"
    /\ trial' = 0
    /\ load_times' = <<>>
    /\ execution_times' = <<>>
    /\ init_time' = 0
    /\ session_time' = 0
    /\ row_count' = "None"
    /\ temp_files' = temp_files
    /\ after' = "none"
    /\ record' = NoRecord
    /\ sessions' = <<>>
    /\ truth' = NoTruth
    /\ init_span' = {}
    /\ query_span' = {}
    /\ created' = 0
    /\ failed' = 0
    /\ fallback' = FALSE
    /\ timed_out' = 0

\* the call returned: "if result: results.append(result)"
Returned ==
    /\ spc = "call"
    /\ bpc = "returned"
    /\ spc' = "loop"
    /\ position' = position + 1
    /\ results' = IF record = NoRecord THEN results
                  ELSE Append(results, Entry(position, record))
    /\ attempts' = Append(attempts,
           [combo |-> position,
            outcome |-> IF record = NoRecord THEN "none"
                        ELSE IF "error" \in DOMAIN record THEN "error"
                        ELSE "ok"])
    /\ Forgotten
    /\ UNCHANGED <<cleaning, startup, inflating, bfs, args, runner, combos,
                   saved>>

\* the call raised: benchmark_suite has no handler and the exception leaves
\* it and main; run_comprehensive_benchmark appends an error record
Raised ==
    /\ spc = "call"
    /\ bpc = "raised"
    /\ attempts' = Append(attempts,
                          [combo |-> position, outcome |-> "raised"])
    /\ IF runner = "benchmark_suite"
       THEN /\ spc' = "aborted"
            /\ UNCHANGED <<position, results>>
       ELSE /\ spc' = "loop"
            /\ position' = position + 1
            /\ results' = Append(results, ExceptionEntry(position))
    /\ Forgotten
    /\ UNCHANGED <<cleaning, startup, inflating, bfs, args, runner, combos,
                   saved>>

\* the loops are over: save_results(results)
SaveResults ==
    /\ spc = "loop"
    /\ position > Len(combos)
    /\ spc' = "saved"
    /\ saved' = results
    /\ UNCHANGED <<cleaning, startup, inflating, bfs, bench, runner, combos,
                   position, results, attempts>>

NextSuite ==
    \/ SkipDataset \/ CallBenchmark \/ Returned \/ Raised \/ SaveResults
    \/ InputsMissing \/ BinaryMissing \/ Enter \/ DuckDB \/ Sirius

SpecSuite == InitSuite /\ [][NextSuite]_vars

(***************************************************************************)
(* The comment removal in front of gpu_processing('...'):                  *)
(* run_sirius_benchmark (02_run_benchmarks.py) and run_sirius_query        *)
(* (verify_query_results.py).  A text is a sequence of characters: "s"     *)
(* stands for any character of SQL that is neither a quote, a dash nor     *)
(* white space.                                                            *)
(***************************************************************************)
Chars == {"s", "'", "-", " ", "\n"}

Texts == UNION {[1..n -> Chars] : n \in 0..MaxText}

\* the first index at which sub occurs in text, 0 if there is none
Find(text, sub) ==
    LET at == {k \in 1..(Len(text) - Len(sub) + 1) :
                  SubSeq(text, k, k + Len(sub) - 1) = sub}
    IN  IF at = {} THEN 0 ELSE CHOOSE k \in at : \A j \in at : k <= j

\* text.split(sep)
RECURSIVE Split(_, _)
Split(text, sep) ==
    LET k == Find(text, sep)
    IN  IF k = 0 THEN <<text>>
        ELSE <<SubSeq(text, 1, k - 1)>>
                 \o Split(SubSeq(text, k + Len(sep), Len(text)), sep)

\* sep.join(lines)
RECURSIVE Join(_, _)
Join(lines, sep) ==
    IF lines = <<>> THEN <<>>
    ELSE IF Len(lines) = 1 THEN lines[1]
    ELSE lines[1] \o sep \o Join(Tail(lines), sep)

IsSpace(c) == c \in {" ", "\n"}

\* line.rstrip(), line.lstrip(), line.strip()
RECURSIVE RStrip(_)
RStrip(line) ==
    IF line # <<>> /\ IsSpace(line[Len(line)])
    THEN RStrip(SubSeq(line, 1, Len(line) - 1))
    ELSE line

RECURSIVE LStrip(_)
LStrip(line) ==
    IF line # <<>> /\ IsSpace(Head(line)) THEN LStrip(Tail(line)) ELSE line

Strip(line) == LStrip(RStrip(line))

StartsWith(line, sub) == Len(line) >= Len(sub) /\ SubSeq(line, 1, Len(sub)) = sub

\* text.replace("'", "''")
RECURSIVE DoubleQuotes(_)
DoubleQuotes(text) ==
    IF text = <<>> THEN <<>>
    ELSE (IF Head(text) = "'" THEN <<"'", "'">> ELSE <<Head(text)>>)
             \o DoubleQuotes(Tail(text))

\* [line for line in query.split('\n')
\*  if line.strip() and not line.strip().startswith('--')]
IsKept(line) == Strip(line) # <<>> /\ ~StartsWith(Strip(line), <<"-", "-">>)

\* if '--' in line: line = line.split('--')[0]; line = line.rstrip()
CutComment(line) ==
    RStrip(IF Find(line, <<"-", "-">>) = 0 THEN line
           ELSE Split(line, <<"-", "-">>)[1])

InitClean ==
    /\ cleaner \in {"run_sirius_benchmark", "run_sirius_query"}
    /\ query \in Texts
    /\ clean_query = <<>>
    /\ escaped = <<>>
    /\ cpc = "loaded"
    /\ SuiteIdle /\ StartupIdle /\ InflatingIdle
    /\ BenchIdle
    /\ nodes = <<>>
    /\ edges = {}
    /\ max_hops = 0
    /\ InitCall

\* clean_query = ' '.join(query_lines)
JoinedKeptLines == Join(SelectSeq(Split(query, <<"\n">>), IsKept), <<" ">>)

\* 02_run_benchmarks.py: whole lines are kept or dropped
CleanBenchmarkQuery ==
    /\ cpc = "loaded"
    /\ cleaner = "run_sirius_benchmark"
    /\ clean_query' = JoinedKeptLines
    /\ cpc' = "cleaned"
    /\ UNCHANGED <<suite, startup, inflating, bfs, bench, cleaner, query,
                   escaped>>

\* verify_query_results.py: every line is cut at its first '--'
CleanVerifiedQuery ==
    /\ cpc = "loaded"
    /\ cleaner = "run_sirius_query"
    /\ LET lines == Split(query, <<"\n">>)
           cut == [k \in DOMAIN lines |-> CutComment(lines[k])]
       IN  clean_query' =
               Join(SelectSeq(cut, LAMBDA line : line # <<>>), <<"\n">>)
    /\ cpc' = "cleaned"
    /\ UNCHANGED <<suite, startup, inflating, bfs, bench, cleaner, query,
                   escaped>>

\* call gpu_processing('{clean_query.replace("'", "''")}')
EmbedQuery ==
    /\ cpc = "cleaned"
    /\ escaped' = DoubleQuotes(clean_query)
    /\ cpc' = "embedded"
    /\ UNCHANGED <<suite, startup, inflating, bfs, bench, cleaner, query,
                   clean_query>>

NextClean == CleanBenchmarkQuery \/ CleanVerifiedQuery \/ EmbedQuery

SpecClean == InitClean /\ [][NextClean]_vars

(***************************************************************************)
(* The replication of a base graph with offset ids: inflate_dataset of     *)
(* 01_prepare_data.py and of inflate_dataset.py (method 'replicate'), and  *)
(* inflate_slim_dataset of inflate_slim_dataset.py.  The base graph is a   *)
(* node table without repeated ids and a non-empty edge table between its  *)
(* ids; the ids are whatever integers the dataset holds.                   *)
(***************************************************************************)
\* node tables: ids in ascending order, none repeated
BaseNodeTables ==
    {t \in UNION {[1..n -> 1..MaxBaseId] : n \in 1..MaxBaseNodes} :
        \A k \in 1..(Len(t) - 1) : t[k] < t[k + 1]}

BaseEdgeTables(t) ==
    UNION {[1..n -> Range(t) \X Range(t)] : n \in 1..MaxBaseEdges}

InitInflate ==
    /\ inflater \in {"01_prepare_data", "inflate_dataset",
                     "inflate_slim_dataset"}
    /\ base_nodes \in BaseNodeTables
    /\ base_edges \in BaseEdgeTables(base_nodes)
    /\ target_edges \in 1..MaxTarget
    /\ replica = 0
    /\ inflated_nodes = <<>>
    /\ inflated_edges = <<>>
    /\ fpc = "loop"
    /\ SuiteIdle /\ CleaningIdle /\ StartupIdle
    /\ BenchIdle
    /\ nodes = <<>>
    /\ edges = {}
    /\ max_hops = 0
    /\ InitCall

\* replication_factor = int(np.ceil(target_edges / original_edge_count))
replication_factor ==
    (target_edges + Len(base_edges) - 1) \div Len(base_edges)

\* node_offset = i * original_node_count, in 01_prepare_data.py
\* i * original_node_count * 10
node_offset(i) ==
    IF inflater = "01_prepare_data" THEN i * Len(base_nodes) * 10
    ELSE i * Len(base_nodes)

\* one pass of "for i in range(replication_factor)": the copies of the node
\* and edge tables with the offset added to every id
ReplicateCopy ==
    /\ fpc = "loop"
    /\ replica < replication_factor
    /\ inflated_nodes' = inflated_nodes \o
           [k \in DOMAIN base_nodes |-> base_nodes[k] + node_offset(replica)]
    /\ inflated_edges' = inflated_edges \o
           [k \in DOMAIN base_edges |->
               <<base_edges[k][1] + node_offset(replica),
                 base_edges[k][2] + node_offset(replica)>>]
    /\ replica' = replica + 1
    /\ UNCHANGED <<suite, cleaning, startup, bfs, bench, inflater, base_nodes,
                   base_edges, target_edges, fpc>>

\* pd.concat(inflated_nodes_list), pd.concat(inflated_edges_list)
ConcatCopies ==
    /\ fpc = "loop"
    /\ replica = replication_factor
    /\ fpc' = "concatenated"
    /\ UNCHANGED <<suite, cleaning, startup, bfs, bench, inflater, base_nodes,
                   base_edges, target_edges, replica, inflated_nodes,
                   inflated_edges>>

NextInflate == ReplicateCopy \/ ConcatCopies

SpecInflate == InitInflate /\ [][NextInflate]_vars

(***************************************************************************)
(* Properties.                                                             *)
(***************************************************************************)
NodeIds == {nodes[i].txId : i \in DOMAIN nodes}
Seeds == Range(SeedRows)
HopsIssued == SelectSeq(issued, LAMBDA c : c.d >= 1)

\* reference: the ids within k edges of a seed, by definition of a path
RECURSIVE Within(_)
Within(k) ==
    IF k = 0 THEN Seeds
    ELSE LET W == Within(k - 1)
         IN  W \cup {e[2] : e \in {x \in edges : x[1] \in W}}

AtDistance(d) == IF d = 0 THEN Seeds ELSE Within(d) \ Within(d - 1)

CountAt(dict, d) == IF d \in DOMAIN dict THEN dict[d] ELSE 0

\* the edge ends are rows of the node table and no id fills two rows
ProperGraph ==
    /\ \A e \in edges : e[1] \in NodeIds /\ e[2] \in NodeIds
    /\ Cardinality(NodeIds) = Len(nodes)

\* no frontier was cut, every file read was the finished output of the
\* command of its own hop, and the loop was not left by a failure
UndisturbedRun ==
    /\ \A i \in DOMAIN issued : Len(issued[i].frontier) <= FrontierCeiling
    /\ \A i \in DOMAIN reads : reads[i].complete /\ reads[i].run = run
    /\ stop \in {"empty_frontier", "max_hops", "no_new"}

\* C1: when a call returns for a proper graph, with no frontier above the
\* ceiling, every artifact produced and max_hops at least the number of
\* nodes, visited holds every seed and the count reported for each distance
\* d is the number of ids whose shortest path from a seed has d edges.
C1_ShortestDistances ==
    (/\ pc = "returned"
     /\ ProperGraph
     /\ UndisturbedRun
     /\ max_hops >= Len(nodes))
    => /\ Seeds \subseteq visited
       /\ result.total_nodes = Cardinality(Within(MaxId))
       /\ \A d \in 0..(MaxId + 1) :
              CountAt(result.distances, d) = Cardinality(AtDistance(d))

\* seed {A}, edges A->B, B->C, A->C: one node at distance 0, two at distance 1
C1_Witness ==
    /\ pc = "returned"
    /\ UndisturbedRun
    /\ max_hops >= Len(nodes)
    /\ nodes = <<[txId |-> 1, class |-> "1"], [txId |-> 2, class |-> "2"],
                 [txId |-> 3, class |-> "2"]>>
    /\ edges = {<<1, 2>>, <<2, 3>>, <<1, 3>>}
    /\ result.distances = (0 :> 1) @@ (1 :> 2)
    /\ result.total_nodes = 3

\* C2: within a call visited only grows, and the ids a hop absorbs and counts
\* at its distance are all outside visited as it was before the hop.
C2_FirstDiscoveryFinal ==
    [][run' = run =>
          /\ visited \subseteq visited'
          /\ (pc = "hop_read" /\ distance_counts' # distance_counts) =>
                 /\ Range(frontier_nodes') \cap visited = {}
                 /\ visited' = visited \cup Range(frontier_nodes')
                 /\ distance_counts'[current_distance] =
                        Cardinality(visited' \ visited)
                 /\ \A d \in DOMAIN distance_counts :
                        /\ d \in DOMAIN distance_counts'
                        /\ distance_counts'[d] = distance_counts[d]]_vars

\* a hop has absorbed some neighbours and dropped an already visited one
C2_Witness ==
    /\ pc = "loop"
    /\ current_distance >= 1
    /\ current_distance \in DOMAIN distance_counts
    /\ files[current_distance].complete
    /\ Len(files[current_distance].rows) > distance_counts[current_distance]

\* C3: for any finite graph, edges with a destination outside the node table
\* included, the loop has ended after at most (number of nodes) hops.
C3_HopsWithinNodeCount == iteration <= Cardinality(NodeIds)

\* C4: at most max_hops expansion commands are written, each for a non-empty
\* frontier at a distance within max_hops, none after a hop without new
\* nodes; with no row of the seed class no expansion command is written and
\* the call returns total_nodes = 0 without raising.
C4_ExpansionGuard ==
    /\ Len(HopsIssued) <= max_hops
    /\ \A i \in DOMAIN issued :
           issued[i].d >= 1 => Len(issued[i].frontier) > 0 /\ issued[i].d <= max_hops
    /\ stop = "no_new" => Len(HopsIssued) = iteration
    /\ SeedRows = <<>> =>
           /\ HopsIssued = <<>>
           /\ pc = "returned" => result.total_nodes = 0
           /\ issued # <<>> => pc # "raised"

\* C5: a failing write of the expansion command of hop d is not raised: the
\* loop ends with visited and the counts as they were, and the dict returned
\* holds the counts of the hops 0..d-1.
C5_FailedSubmitKeepsPartial ==
    /\ [](stop = "submit_failed" =>
              /\ pc \in {"close", "returned"}
              /\ pc = "returned" =>
                     /\ result.distances = distance_counts
                     /\ DOMAIN result.distances = 0..(current_distance - 1)
                     /\ result.total_nodes = Cardinality(visited))
    /\ [][(pc = "loop" /\ LoopCondition /\ sirius_proc # "running" /\ pc' # pc) =>
              /\ pc' = "close"
              /\ visited' = visited
              /\ distance_counts' = distance_counts]_vars

\* the write of hop 2 failed and the call returned the counts of hops 0 and 1
C5_Witness ==
    /\ pc = "returned"
    /\ stop = "submit_failed"
    /\ current_distance = 2
    /\ DOMAIN result.distances = {0, 1}
    /\ result.total_nodes = 2

\* C6: a call that ended because a hop's write failed and a call that
\* converged (no new nodes, or max_hops reached) never return the same dict.
C6_EarlyStopDistinguishable ==
    \A a, b \in returned :
        (a.stop = "submit_failed" /\ b.stop \in {"no_new", "max_hops"})
            => a.result # b.result

\* C7: when the file of an expansion hop does not exist at read time, the
\* loop ends as on convergence with visited and the counts unchanged, and the
\* call returns a dict.
C7_MissingArtifactEndsLoop ==
    /\ [](stop = "no_file" =>
              /\ pc \in {"close", "wait", "returned"}
              /\ pc = "returned" =>
                     /\ result.distances = distance_counts
                     /\ DOMAIN result.distances = 0..(current_distance - 1)
                     /\ result.total_nodes = Cardinality(visited))
    /\ [][(pc = "hop_read" /\ ~files[current_distance].exists /\ pc' # pc) =>
              /\ pc' = "close"
              /\ visited' = visited
              /\ distance_counts' = distance_counts]_vars

\* the file of hop 2 was missing and the call returned the counts of hops 0, 1
C7_Witness ==
    /\ pc = "returned"
    /\ stop = "no_file"
    /\ current_distance = 2
    /\ ~files[2].exists
    /\ DOMAIN result.distances = {0, 1}

\* C8: no artifact, absent or unparsable, the seed artifact included, makes
\* the call raise: once the seed command is written the call returns a dict.
C8_ArtifactsDegradeToNoRows == pc = "raised" => issued = <<>>

\* C9: the rows a hop reads were written by that hop's own command, never
\* left behind by an earlier command.
C9_ReadsOwnArtifact == \A i \in DOMAIN reads : reads[i].run = run

\* C10: a frontier above the ceiling goes into the expansion command as its
\* first FrontierCeiling ids in id order, never more.
C10_TruncationByIdOrder ==
    \A i \in DOMAIN issued :
        LET c == issued[i]
        IN  (c.d >= 1 /\ Len(c.frontier) > FrontierCeiling
                 /\ Cardinality(Range(c.frontier)) = Len(c.frontier))
                => /\ Len(c.ids) <= FrontierCeiling
                   /\ Range(c.ids) =
                          Range(Take(SortedSeq(Range(c.frontier)), FrontierCeiling))

\* C11: once the engine process was started, no exit of the call, by return
\* or by exception, leaves the process running: it has exited on the quit
\* command or it has been killed.
C11_NoExitLeavesProcessRunning ==
    pc \in {"returned", "raised"} => sirius_proc # "running"

C13_ScriptsRemoved ==
    /\ bpc \in {"returned", "raised"} => temp_files = {}
    /\ bpc = "script" => temp_files = {}
    /\ temp_files \subseteq {created}

\* a cold_start run of two trials, one of which failed, has returned its dict
C13_Witness ==
    /\ bpc = "returned"
    /\ database = "sirius"
    /\ mode = "cold_start"
    /\ created = 2
    /\ failed = 1
    /\ "total_time" \in DOMAIN record
    /\ temp_files = {}

\* C23: within one session the COPY commands are written one at a time in
\* strictly increasing distance order 0, 1, 2, ..., each once; the command of
\* a distance is written only after the artifact of the distance before it
\* has been read; and the artifact read for a distance is the file named for
\* that distance.
C23_CommandsInOrder ==
    /\ [](/\ \A i \in DOMAIN issued : issued[i].d = i - 1
          /\ \A j \in DOMAIN reads : reads[j].d = j - 1
          /\ Len(reads) <= Len(issued))
    /\ [][issued' # issued =>
              /\ Len(issued') = Len(issued) + 1
              /\ Len(reads) = Len(issued)
              /\ Len(stdin') = Len(stdin) + 1
              /\ stdin'[Len(stdin')].kind # "quit"
              /\ stdin'[Len(stdin')].d = Len(issued)]_vars
    /\ [][reads' # reads =>
              /\ Len(reads') = Len(reads) + 1
              /\ Len(issued) = Len(reads')
              /\ LET d == Len(reads)
                 IN  /\ files[d].exists
                     /\ reads'[d + 1].run = files[d].run
                     /\ reads'[d + 1].complete = files[d].complete
                     /\ visited' \subseteq visited \cup Range(files[d].rows)]_vars

\* the commands of the seed query and of two hops have been written and the
\* artifact of the second hop has been read
C23_Witness ==
    /\ Len(issued) = 3
    /\ Len(reads) = 3
    /\ reads[3].d = 2
    /\ distance_counts[1] > 0

\* C24: every call returns or raises in the end, whatever the engine does:
\* no step of the controller waits for the engine without a bound.
C24_RunAlwaysReturns == (pc = "entry") ~> (pc \in {"returned", "raised"})

\* the engine has not finished the commands written to it
EngineBehind == sirius_proc = "running" /\ (stdin # <<>> \/ writing.busy)

\* C26: whatever time the engine takes, an artifact is read only when the
\* engine has finished writing it: no read finds a file that is still being
\* written, and no hop ends the search on an absent file while the engine is
\* still at work on the hop's command.
C26_ArtifactCompleteWhenRead ==
    /\ [](\A j \in DOMAIN reads : reads[j].complete)
    /\ [][(stop # "no_file" /\ stop' = "no_file") => ~EngineBehind]_vars

\* C27: the initialization script exists whenever the engine opens it: the
\* controller removes the file only after the engine has read it.
C27_InitScriptThereWhenOpened ==
    /\ engine_init # "missing"
    /\ (init_sql = "removed" /\ sirius_proc = "running") => engine_init = "read"

RECURSIVE Total(_)
Total(dict) ==
    IF DOMAIN dict = {} THEN 0
    ELSE LET k == CHOOSE j \in DOMAIN dict : TRUE
         IN  dict[k] + Total([j \in DOMAIN dict \ {k} |-> dict[j]])

\* C28: in the dict a call returns, the counts of `distances` add up to
\* `total_nodes`, whatever the node and edge tables hold.
C28_CountsSumToTotal ==
    pc = "returned" => Total(result.distances) = result.total_nodes

\* C29: in the dict a call returns, the keys of `distances` are exactly
\* 0..max_distance, the count of every key from 1 on is positive, iterations
\* is at most max_hops, and iterations - max_distance is 0 or 1: 1 exactly
\* when the last hop of the loop added no node.
C29_ResultShape ==
    pc = "returned" =>
        /\ DOMAIN result.distances = 0..result.max_distance
        /\ \A k \in 1..result.max_distance : result.distances[k] > 0
        /\ result.iterations <= max_hops
        /\ result.iterations - result.max_distance \in {0, 1}
        /\ (result.iterations - result.max_distance = 1) <=>
               stop \in {"no_new", "no_file", "submit_failed"}

\* a call has returned after a hop that added nodes and a last hop that
\* added none
C29_Witness ==
    /\ pc = "returned"
    /\ stop = "no_new"
    /\ result.iterations = 2
    /\ result.max_distance = 1
    /\ result.distances[1] > 0

(***************************************************************************)
(* Properties of the benchmark functions.                                  *)
(***************************************************************************)
OpenSessions == {i \in DOMAIN sessions : sessions[i].open}
QueriesOf(s) == {j \in DOMAIN s.cmds : s.cmds[j] = "query"}

\* the function has left its trials by return or by an exception of a query
TrialsOver ==
    /\ bpc \in {"returned", "raised"}
    /\ sessions # <<>>
    /\ after # "raise"

\* C14: in cold_start, on either engine, at most one session is open at any
\* time, a session is closed before the next one is opened, every closed
\* session has received exactly one query, and when the function is left,
\* also after a failing query, num_runs sessions were opened and all are
\* closed.
C14_FreshSessionPerTrial ==
    mode = "cold_start" =>
        /\ Cardinality(OpenSessions) <= 1
        /\ \A i \in DOMAIN sessions : i < Len(sessions) => ~sessions[i].open
        /\ \A i \in DOMAIN sessions :
               ~sessions[i].open => Cardinality(QueriesOf(sessions[i])) = 1
        /\ TrialsOver => Len(sessions) = num_runs /\ OpenSessions = {}

\* the commands a warm_cache or persistent_session session is to receive,
\* the initialisation of the accelerator buffer aside
Expected(n) == <<"load_nodes", "load_edges", "warmup">> \o [i \in 1..n |-> "query"]

NotBufferInit(c) == c # "buffer_init"
IsPrefix(s, t) == Len(s) <= Len(t) /\ s = SubSeq(t, 1, Len(s))
WarmupOf(s) == {j \in DOMAIN s.cmds : s.cmds[j] = "warmup"}

\* the function has returned a dict with timings
Reported == bpc = "returned" /\ "total_time" \in DOMAIN record

\* C15: in warm_cache, on either engine, one session is opened and receives
\* load nodes, load edges, (buffer init,) one warm-up query and then num_runs
\* timed queries, in this order; the clock intervals behind the reported
\* query time hold the timed queries and not the warm-up, and the interval
\* behind the reported initialization time holds none of the timed queries.
C15_WarmSessionOrder ==
    mode = "warm_cache" =>
        /\ Len(sessions) <= 1
        /\ \A i \in DOMAIN sessions :
               /\ IsPrefix(SelectSeq(sessions[i].cmds, NotBufferInit),
                           Expected(num_runs))
               /\ sessions[i].engine = "sirius" =>
                      IsPrefix(sessions[i].cmds, SessionScript(num_runs))
        /\ (bpc = "returned" /\ "initialization_time" \in DOMAIN record) =>
               /\ Len(sessions) = 1
               /\ SelectSeq(sessions[1].cmds, NotBufferInit) = Expected(num_runs)
               /\ query_span = QueriesOf(sessions[1])
               /\ WarmupOf(sessions[1]) \cap query_span = {}
               /\ QueriesOf(sessions[1]) \cap init_span = {}

\* C16: every persistent_session dict with timings, of either engine,
\* reports amortized_time_per_query = total_time / num_queries exactly, with
\* total_time the total elapsed time of the same dict and num_queries the
\* session_queries asked for.
C16_AmortizedIsTotalOverN ==
    (bpc = "returned" /\ "amortized_time_per_query" \in DOMAIN record) =>
        LET a == record.amortized_time_per_query
            t == record.total_time
        IN  /\ record.num_queries = session_queries
            /\ a.n * t.d * record.num_queries = t.n * a.d
            /\ a = Frac(a.n, a.d)
            /\ t = Whole(IF database = "duckdb" THEN init_time + session_time
                         ELSE session_time)

\* DuckDB: loads of 1 tick, two queries of 2 ticks in all: 3 / 2 per query
C16_Witness ==
    /\ bpc = "returned"
    /\ database = "duckdb"
    /\ mode = "persistent_session"
    /\ "amortized_time_per_query" \in DOMAIN record
    /\ record.num_queries = 2
    /\ record.initialization_time = Whole(1)
    /\ record.total_time = Whole(3)
    /\ record.amortized_time_per_query = [n |-> 3, d |-> 2]

\* C17: in persistent_session the reported avg_query_time is the time the
\* block of session_queries queries took, divided by session_queries: the
\* clock interval behind it holds those queries and not the warm-up, on
\* either engine.
C17_PerQueryIsBlockOverN ==
    (bpc = "returned" /\ "amortized_time_per_query" \in DOMAIN record) =>
        /\ record.avg_query_time = Frac(truth.block, session_queries)
        /\ query_span = QueriesOf(Current)
        /\ WarmupOf(Current) \cap query_span = {}

\* C18: in cold_start with one trial the dict of either engine reports a
\* load+init time >= 0 and a query time >= 0 whose sum is the total_time it
\* reports.
C18_ColdBreakdown ==
    (Reported /\ mode = "cold_start" /\ num_runs = 1) =>
        /\ "initialization_time" \in DOMAIN record
        /\ "avg_query_time" \in DOMAIN record
        /\ record.initialization_time.n >= 0
        /\ record.avg_query_time.n >= 0
        /\ Plus(record.initialization_time, record.avg_query_time)
               = record.total_time

\* the number of failed trials a dict reports.  num_runs of a Sirius dict is
\* len(execution_times), the number of successful trials; a tally of the
\* failed ones would be a field of its own.
ReportedFailures(rec) ==
    IF "failed_runs" \in DOMAIN rec THEN rec.failed_runs ELSE 0

\* C19: when k of the num_runs trials of a cold_start run fail, the run still
\* ends with a dict; mean, min and max are taken over the num_runs - k
\* successful trials and the dict reports that k trials failed; when every
\* trial failed the dict holds an error and no aggregates.
C19_FailuresTallied ==
    /\ (mode = "cold_start" /\ failed > 0 /\ after # "raise") => bpc # "raised"
    /\ (mode = "cold_start" /\ bpc = "returned" /\ sessions # <<>>) =>
           IF failed = num_runs
           THEN /\ "error" \in DOMAIN record
                /\ "total_time" \notin DOMAIN record
           ELSE /\ Len(execution_times) = num_runs - failed
                /\ record.total_time = Mean(execution_times)
                /\ database = "sirius" =>
                       /\ record.min_total_time = Whole(MinOf(execution_times))
                       /\ record.max_total_time = Whole(MaxOf(execution_times))
                /\ ReportedFailures(record) = failed

\* a dict is flagged as fallen back when it carries the flag that
\* run_sirius_query of verify_query_results.py computes from the output
Flagged(rec) == "gpu_used" \in DOMAIN rec /\ rec.gpu_used = FALSE

\* C20: when the output of the engine in a benchmark trial held the fallback
\* marker, the function ends with a dict, and the dict is flagged as fallen
\* back unless it is an error dict: it is never the dict of an accelerated
\* run without a flag.
C20_FallbackFlagged ==
    (fallback /\ bpc \in {"returned", "raised"}) =>
        /\ bpc = "returned"
        /\ record # NoRecord
        /\ Flagged(record) \/ "error" \in DOMAIN record

\* C22: a Sirius trial whose engine process ran into the timeout is recorded
\* as a failed trial with the timeout as its reason, in every mode, and the
\* process is not running when the controller is past the trial.
C22_TimeoutRecorded ==
    /\ (timed_out > 0 /\ bpc \in {"returned", "raised"}) =>
           /\ bpc = "returned"
           /\ "error" \in DOMAIN record
           /\ record.error = "Timeout"
    /\ (timed_out > 0 /\ bpc \notin {"spawn", "running"}) =>
           \A i \in OpenSessions : sessions[i].engine # "sirius"

(***************************************************************************)
(* Properties of the suite functions.                                      *)
(***************************************************************************)
EntriesOf(i) == {k \in DOMAIN saved : saved[k].combo = i}

\* C21: a failed combination never keeps the remaining ones from being run
\* (only an engine that cannot be started may end the suite early), and in
\* the results that are saved every combination has exactly one record,
\* with an error text when the combination did not succeed.
C21_EveryCombinationRecorded ==
    /\ spc = "aborted" => database = "sirius"
    /\ spc = "saved" =>
           /\ \A i \in DOMAIN combos : Cardinality(EntriesOf(i)) = 1
           /\ \A a \in DOMAIN attempts :
                  attempts[a].outcome # "ok" =>
                      \A k \in EntriesOf(attempts[a].combo) :
                          saved[k].error # "none"

(***************************************************************************)
(* Properties of the comment removal.                                      *)
(***************************************************************************)
\* the SQL of a text: its characters outside comments.  A "--" outside a
\* string literal opens a comment that the end of the line closes; white
\* space counts as one blank, and none at either end.
RECURSIVE Code(_, _, _)
Code(text, inQuote, inComment) ==
    IF text = <<>> THEN <<>>
    ELSE LET c == Head(text)
             r == Tail(text)
         IN  IF inComment
             THEN IF c = "\n" THEN <<" ">> \o Code(r, inQuote, FALSE)
                  ELSE Code(r, inQuote, TRUE)
             ELSE IF c = "'" THEN <<c>> \o Code(r, ~inQuote, FALSE)
             ELSE IF ~inQuote /\ StartsWith(text, <<"-", "-">>)
             THEN Code(Tail(r), FALSE, TRUE)
             ELSE IF IsSpace(c) THEN <<" ">> \o Code(r, inQuote, FALSE)
             ELSE <<c>> \o Code(r, inQuote, FALSE)

RECURSIVE Squeeze(_)
Squeeze(text) ==
    IF Len(text) < 2 THEN text
    ELSE IF text[1] = " " /\ text[2] = " " THEN Squeeze(Tail(text))
    ELSE <<Head(text)>> \o Squeeze(Tail(text))

Meaning(text) == Strip(Squeeze(Code(text, FALSE, FALSE)))

\* every quote of text stands twice in doubled, and nothing else changed
RECURSIVE IsDoubled(_, _)
IsDoubled(text, doubled) ==
    IF text = <<>> THEN doubled = <<>>
    ELSE IF Head(text) = "'"
    THEN /\ StartsWith(doubled, <<"'", "'">>)
         /\ IsDoubled(Tail(text), Tail(Tail(doubled)))
    ELSE /\ doubled # <<>>
         /\ Head(doubled) = Head(text)
         /\ IsDoubled(Tail(text), Tail(doubled))

Quotes(text) == Len(SelectSeq(text, LAMBDA c : c = "'"))

\* the string literals of the text are plain: each begins and ends on one
\* line and none holds a "--"
PlainLiterals(text) ==
    \A line \in Range(Split(text, <<"\n">>)) :
        /\ Quotes(line) % 2 = 0
        /\ \A k \in 1..(Len(line) - 1) :
               (line[k] = "-" /\ line[k + 1] = "-") =>
                   Quotes(SubSeq(line, 1, k - 1)) % 2 = 0

\* C25: the cleaned query is the loaded query without its comments: its SQL
\* is the SQL of the loaded query (no text of a later line ends up behind
\* the "--" of an earlier one), and inside gpu_processing('...') every quote
\* of the cleaned query is doubled.
C25_CleaningKeepsTheQuery ==
    /\ (cpc \in {"cleaned", "embedded"} /\ PlainLiterals(query)) =>
           Meaning(clean_query) = Meaning(query)
    /\ cpc = "embedded" => IsDoubled(clean_query, escaped)

(***************************************************************************)
(* Properties of the replication.                                          *)
(***************************************************************************)
\* the node ids and the edges of the copy made in pass i
NodesOfReplica(i) ==
    {inflated_nodes[i * Len(base_nodes) + k] : k \in DOMAIN base_nodes}

EdgesOfReplica(i) ==
    {inflated_edges[i * Len(base_edges) + k] : k \in DOMAIN base_edges}

\* C30: the node ids of two different replicas are disjoint, whatever the
\* base ids and the replication factor: every id stands once in the inflated
\* node table, and no edge of a replica ends at a node of another replica.
C30_ReplicasDisjoint ==
    \A i, j \in 0..(replica - 1) :
        i # j =>
            /\ NodesOfReplica(i) \cap NodesOfReplica(j) = {}
            /\ \A e \in EdgesOfReplica(i) :
                   e[1] \notin NodesOfReplica(j) /\ e[2] \notin NodesOfReplica(j)

====
